---- MODULE Spec2Model ----
(***************************************************************************)
(* Model of main.go: a linear program that reads its configuration with    *)
(* Viper, connects to PostgreSQL with pgx, queries the server time,        *)
(* creates the users table, inserts three hardcoded records with           *)
(* ON CONFLICT (username) DO NOTHING, and prints the time and a            *)
(* configuration value.  The database outlives the process, so the model   *)
(* lets the program be started again against the database the previous     *)
(* run left.                                                               *)
(***************************************************************************)
EXTENDS Integers, Sequences, FiniteSets, TLC

\* Number of times the program is started against the same database.
MaxRuns == 2

\* ------------------------------------------------------------------------
\* Domains

\* Usernames and emails that may already be in the users table; "carol" is
\* a row written by somebody else.
Usernames == {"alice", "bob", "carol"}
Emails == {"alice@example.com", "bob@example.com", "carol@example.com"}

\* main.go:89-93, the hardcoded records, in input order.
users == << [username |-> "alice", email |-> "alice@example.com"],
            [username |-> "bob",   email |-> "bob@example.com"],
            [username |-> "alice", email |-> "alice@example.com"] >>

\* State of the .env file: unreadable (missing or unparsable), readable
\* without the CONN_STR key, or readable with a CONN_STR value.
FileStates == {"unreadable", "nokey", "uri", "malformed"}
\* State of the CONN_STR environment variable.
EnvStates == {"unset", "uri"}

\* ------------------------------------------------------------------------
\* Viper

\* main.go:44, viper.Set("Developer", "Hozana"): the override layer.
Overrides == [Developer |-> "Hozana"]

\* viper.GetString: override, then environment (AutomaticEnv), then the
\* configuration file, then the empty string.
GetString(key, file, env) ==
    IF key \in DOMAIN Overrides THEN Overrides[key]
    ELSE IF key = "CONN_STR" /\ env # "unset" THEN env
    ELSE IF key = "CONN_STR" /\ file \in {"uri", "malformed"} THEN file
    ELSE ""

\* viper.ReadInConfig on the file set by SetConfigFile(".env").
ReadInConfigErr(file) == file = "unreadable"

\* ------------------------------------------------------------------------
\* PostgreSQL

\* pgx.Connect: a string that does not parse is an error; the empty string
\* parses (the driver falls back to the libpq defaults and PG* variables),
\* so the outcome is then decided by whether a server answers.
ConnectErr(cs, up) == cs = "malformed" \/ ~up

UsernamesOf(rows) == {r.username : r \in rows}
EmailsOf(rows) == {r.email : r \in rows}

\* Variant: CREATE TABLE users (...) without IF NOT EXISTS.
CreateTableNoIfNotExists(d) ==
    IF d.exists THEN [db |-> d, err |-> "duplicate_table"]
    ELSE [db |-> [exists |-> TRUE, rows |-> {}, nextId |-> 1], err |-> "none"]

\* Variant: DROP TABLE IF EXISTS users; CREATE TABLE users (...).
CreateTableDropFirst(d) ==
    [db |-> [exists |-> TRUE, rows |-> {}, nextId |-> 1], err |-> "none"]

\* CREATE TABLE IF NOT EXISTS users (...): result database and error.
CreateTableIfNotExists(d) ==
    IF d.exists THEN [db |-> d, err |-> "none"]
    ELSE [db |-> [exists |-> TRUE, rows |-> {}, nextId |-> 1], err |-> "none"]

\* Variant: the INSERT without its ON CONFLICT clause.
InsertNoConflictClause(d, u, e) ==
    IF ~d.exists THEN [db |-> d, err |-> "undefined_table"]
    ELSE LET d1 == [d EXCEPT !.nextId = d.nextId + 1] IN
         IF u \in UsernamesOf(d.rows) THEN [db |-> d1, err |-> "unique_username"]
         ELSE IF e \in EmailsOf(d.rows) THEN [db |-> d1, err |-> "unique_email"]
         ELSE [db |-> [d1 EXCEPT !.rows = d.rows \cup
                        {[id |-> d.nextId, username |-> u, email |-> e]}],
               err |-> "none"]

\* Variant: ON CONFLICT DO NOTHING with no conflict target, which skips on
\* a violation of any unique constraint.
InsertOnAnyConflictDoNothing(d, u, e) ==
    IF ~d.exists THEN [db |-> d, err |-> "undefined_table"]
    ELSE LET d1 == [d EXCEPT !.nextId = d.nextId + 1] IN
         IF u \in UsernamesOf(d.rows) \/ e \in EmailsOf(d.rows)
         THEN [db |-> d1, err |-> "none"]
         ELSE [db |-> [d1 EXCEPT !.rows = d.rows \cup
                        {[id |-> d.nextId, username |-> u, email |-> e]}],
               err |-> "none"]

\* INSERT INTO users (username, email) VALUES ($1, $2)
\* ON CONFLICT (username) DO NOTHING.  The id default (nextval) is taken
\* before the conflict check, so the sequence advances on every attempt.
InsertOnConflictDoNothing(d, u, e) ==
    IF ~d.exists THEN [db |-> d, err |-> "undefined_table"]
    ELSE LET d1 == [d EXCEPT !.nextId = d.nextId + 1] IN
         IF u \in UsernamesOf(d.rows) THEN [db |-> d1, err |-> "none"]
         ELSE IF e \in EmailsOf(d.rows) THEN [db |-> d1, err |-> "unique_email"]
         ELSE [db |-> [d1 EXCEPT !.rows = d.rows \cup
                        {[id |-> d.nextId, username |-> u, email |-> e]}],
               err |-> "none"]

\* ------------------------------------------------------------------------
\* State

VARIABLES
    fileConn,   \* the .env file
    envConn,    \* the CONN_STR environment variable
    serverUp,   \* a server answers at the address the driver resolves
    db,         \* the database: [exists, rows, nextId]
    clock,      \* the server's clock
    run,        \* number of the current run
    pc,         \* position of main
    connStr,    \* main.go:51
    conn,       \* main.go:55: "nil", "open" or "closed"
    closeCount, \* calls of conn.Close in this run
    deferred,   \* deferred calls registered by main
    now,        \* main.go:63
    idx,        \* position of the range loop, main.go:105
    stdout,     \* lines written by fmt
    logged,     \* lines written by log
    exitStatus, \* -1 while running
    calls,      \* calls made in this run, with their results
    rowsAtStart,\* db.rows when this run started
    prevClean   \* the previous run completed with no error at all

vars == << fileConn, envConn, serverUp, db, clock, run, pc, connStr, conn,
           closeCount, deferred, now, idx, stdout, logged, exitStatus,
           calls, rowsAtStart, prevClean >>

env == << fileConn, envConn, serverUp >>

Line(kind, text, time) == [kind |-> kind, text |-> text, time |-> time]
Call(op, arg, at, err) == [op |-> op, arg |-> arg, at |-> at, err |-> err]

\* Partial one-to-one assignments of emails to usernames.
FixedId == [u \in Usernames |->
              IF u = "alice" THEN 1 ELSE IF u = "bob" THEN 2 ELSE 3]
RowSets ==
    { {[id |-> FixedId[p[1]], username |-> p[1], email |-> p[2]] : p \in S} :
        S \in { T \in SUBSET (Usernames \X Emails) :
                  \A p, q \in T : (p[1] = q[1] \/ p[2] = q[2]) => p = q } }

InitDbs ==
    {[exists |-> FALSE, rows |-> {}, nextId |-> 1]} \cup
    {[exists |-> TRUE, rows |-> R, nextId |-> 4] : R \in RowSets}

Init ==
    /\ fileConn \in FileStates
    /\ envConn \in EnvStates
    /\ serverUp \in BOOLEAN
    /\ db \in InitDbs
    /\ clock = 0
    /\ run = 1
    /\ pc = "readconfig"
    /\ connStr = ""
    /\ conn = "nil"
    /\ closeCount = 0
    /\ deferred = << >>
    /\ now = 0
    /\ idx = 1
    /\ stdout = << >>
    /\ logged = << >>
    /\ exitStatus = -1
    /\ calls = << >>
    /\ rowsAtStart = db.rows
    /\ prevClean = FALSE

\* log.Fatal: the line is logged and os.Exit(1) ends the process at once;
\* deferred calls are not run.
Fatal(text) ==
    /\ logged' = Append(logged, Line("fatal", text, 0))
    /\ exitStatus' = 1
    /\ pc' = "exited"
    /\ UNCHANGED << conn, closeCount, deferred >>

\* main.go:42-48
ReadConfig ==
    /\ pc = "readconfig"
    /\ calls' = Append(calls, Call("readconfig", "", clock,
                  IF ReadInConfigErr(fileConn) THEN "fault" ELSE "none"))
    /\ IF ReadInConfigErr(fileConn)
       THEN Fatal("Error loading .env file:")
       ELSE /\ pc' = "connect"
            /\ UNCHANGED << logged, exitStatus, conn, closeCount, deferred >>
    /\ UNCHANGED << env, db, clock, run, connStr, now, idx, stdout,
                    rowsAtStart, prevClean >>

\* main.go:51-60
Connect ==
    /\ pc = "connect"
    /\ LET cs == GetString("CONN_STR", fileConn, envConn) IN
       /\ connStr' = cs
       /\ calls' = Append(calls, Call("connect", cs, clock,
                     IF ConnectErr(cs, serverUp) THEN "fault" ELSE "none"))
       /\ IF ConnectErr(cs, serverUp)
          THEN Fatal("Failed to connect:")
          ELSE /\ conn' = "open"
               /\ deferred' = << "conn.Close" >> \o deferred
               /\ pc' = "querynow"
               /\ UNCHANGED << logged, exitStatus, closeCount >>
    /\ UNCHANGED << env, db, clock, run, now, idx, stdout,
                    rowsAtStart, prevClean >>

\* Variant: the failed query is logged with log.Println and main goes on.
QueryNowNoExit ==
    /\ pc = "querynow"
    /\ \E fault \in BOOLEAN :
        /\ clock' = clock + 1
        /\ calls' = Append(calls, Call("now", "", clock',
                      IF fault THEN "fault" ELSE "none"))
        /\ IF fault
           THEN /\ logged' = Append(logged, Line("fatal", "QueryRow failed:", 0))
                /\ UNCHANGED now
           ELSE /\ now' = clock'
                /\ UNCHANGED logged
        /\ pc' = "createtable"
        /\ UNCHANGED << exitStatus, conn, closeCount, deferred >>
    /\ UNCHANGED << env, db, run, connStr, idx, stdout, rowsAtStart, prevClean >>

\* main.go:63-67
QueryNow ==
    /\ pc = "querynow"
    /\ \E fault \in BOOLEAN :
        /\ clock' = clock + 1
        /\ calls' = Append(calls, Call("now", "", clock',
                      IF fault THEN "fault" ELSE "none"))
        /\ IF fault
           THEN /\ Fatal("QueryRow failed:")
                /\ UNCHANGED now
           ELSE /\ now' = clock'
                /\ pc' = "createtable"
                /\ UNCHANGED << logged, exitStatus, conn, closeCount, deferred >>
    /\ UNCHANGED << env, db, run, connStr, idx, stdout, rowsAtStart, prevClean >>

\* Variant: the failed statement is logged with log.Println and main goes on.
CreateTableNoExit ==
    /\ pc = "createtable"
    /\ \E fault \in BOOLEAN :
        LET res == IF fault THEN [db |-> db, err |-> "fault"]
                   ELSE CreateTableIfNotExists(db) IN
        /\ clock' = clock + 1
        /\ db' = res.db
        /\ calls' = Append(calls, Call("create", "", clock', res.err))
        /\ logged' = IF res.err # "none"
                     THEN Append(logged, Line("fatal", "Table creation failed:", 0))
                     ELSE logged
        /\ stdout' = Append(stdout,
                      Line("table", "Table 'users' created or already exists.", 0))
        /\ pc' = "insert"
        /\ UNCHANGED << exitStatus, conn, closeCount, deferred >>
    /\ UNCHANGED << env, run, connStr, now, idx, rowsAtStart, prevClean >>

\* main.go:73-85
CreateTable ==
    /\ pc = "createtable"
    /\ \E fault \in BOOLEAN :
        LET res == IF fault THEN [db |-> db, err |-> "fault"]
                   ELSE CreateTableIfNotExists(db) IN
        /\ clock' = clock + 1
        /\ db' = res.db
        /\ calls' = Append(calls, Call("create", "", clock', res.err))
        /\ IF res.err # "none"
           THEN /\ Fatal("Table creation failed:")
                /\ UNCHANGED stdout
           ELSE /\ stdout' = Append(stdout,
                      Line("table", "Table 'users' created or already exists.", 0))
                /\ pc' = "insert"
                /\ UNCHANGED << logged, exitStatus, conn, closeCount, deferred >>
    /\ UNCHANGED << env, run, connStr, now, idx, rowsAtStart, prevClean >>

\* Variant: an insert that affected no row is reported as a failure.
InsertUserRowsAffected ==
    /\ pc = "insert"
    /\ idx <= Len(users)
    /\ \E fault \in BOOLEAN :
        LET user == users[idx]
            res == IF fault THEN [db |-> db, err |-> "fault"]
                   ELSE InsertOnConflictDoNothing(db, user.username, user.email) IN
        /\ clock' = clock + 1
        /\ db' = res.db
        /\ calls' = Append(calls, Call("insert", user.username, clock', res.err))
        /\ IF res.err # "none" \/ res.db.rows = db.rows
           THEN /\ logged' = Append(logged, Line("insertfail", user.username, 0))
                /\ UNCHANGED stdout
           ELSE /\ stdout' = Append(stdout, Line("inserted", user.username, 0))
                /\ UNCHANGED logged
    /\ idx' = idx + 1
    /\ pc' = IF idx' > Len(users) THEN "report" ELSE "insert"
    /\ UNCHANGED << env, run, connStr, conn, closeCount, deferred, now,
                    exitStatus, rowsAtStart, prevClean >>

\* Variant: the loop is left (break) at the first insert error.
InsertUserBreak ==
    /\ pc = "insert"
    /\ idx <= Len(users)
    /\ \E fault \in BOOLEAN :
        LET user == users[idx]
            res == IF fault THEN [db |-> db, err |-> "fault"]
                   ELSE InsertOnConflictDoNothing(db, user.username, user.email) IN
        /\ clock' = clock + 1
        /\ db' = res.db
        /\ calls' = Append(calls, Call("insert", user.username, clock', res.err))
        /\ IF res.err # "none"
           THEN /\ logged' = Append(logged, Line("insertfail", user.username, 0))
                /\ pc' = "report"
                /\ UNCHANGED stdout
           ELSE /\ stdout' = Append(stdout, Line("inserted", user.username, 0))
                /\ pc' = IF idx + 1 > Len(users) THEN "report" ELSE "insert"
                /\ UNCHANGED logged
    /\ idx' = idx + 1
    /\ UNCHANGED << env, run, connStr, conn, closeCount, deferred, now,
                    exitStatus, rowsAtStart, prevClean >>

\* Variant: the error branch lacks its continue and falls through to the
\* success line.
InsertUserNoContinue ==
    /\ pc = "insert"
    /\ idx <= Len(users)
    /\ \E fault \in BOOLEAN :
        LET user == users[idx]
            res == IF fault THEN [db |-> db, err |-> "fault"]
                   ELSE InsertOnConflictDoNothing(db, user.username, user.email) IN
        /\ clock' = clock + 1
        /\ db' = res.db
        /\ calls' = Append(calls, Call("insert", user.username, clock', res.err))
        /\ logged' = IF res.err # "none"
                     THEN Append(logged, Line("insertfail", user.username, 0))
                     ELSE logged
        /\ stdout' = Append(stdout, Line("inserted", user.username, 0))
    /\ idx' = idx + 1
    /\ pc' = IF idx' > Len(users) THEN "report" ELSE "insert"
    /\ UNCHANGED << env, run, connStr, conn, closeCount, deferred, now,
                    exitStatus, rowsAtStart, prevClean >>

\* main.go:105-112, one iteration of the loop
InsertUser ==
    /\ pc = "insert"
    /\ idx <= Len(users)
    /\ \E fault \in BOOLEAN :
        LET user == users[idx]
            res == IF fault THEN [db |-> db, err |-> "fault"]
                   ELSE InsertOnConflictDoNothing(db, user.username, user.email) IN
        /\ clock' = clock + 1
        /\ db' = res.db
        /\ calls' = Append(calls, Call("insert", user.username, clock', res.err))
        /\ IF res.err # "none"
           THEN /\ logged' = Append(logged, Line("insertfail", user.username, 0))
                /\ UNCHANGED stdout
           ELSE /\ stdout' = Append(stdout, Line("inserted", user.username, 0))
                /\ UNCHANGED logged
    /\ idx' = idx + 1
    /\ pc' = IF idx' > Len(users) THEN "report" ELSE "insert"
    /\ UNCHANGED << env, run, connStr, conn, closeCount, deferred, now,
                    exitStatus, rowsAtStart, prevClean >>

\* main.go:115-117 and the deferred conn.Close of main.go:60, run when main
\* returns.
Report ==
    /\ pc = "report"
    /\ stdout' = stdout \o
          << Line("time", "Current time:", now),
             Line("developer", GetString("Developer", fileConn, envConn), 0) >>
    /\ closeCount' = closeCount + Len(SelectSeq(deferred, LAMBDA f : f = "conn.Close"))
    /\ conn' = IF Len(deferred) > 0 THEN "closed" ELSE conn
    /\ deferred' = << >>
    /\ exitStatus' = 0
    /\ pc' = "exited"
    /\ UNCHANGED << env, db, clock, run, connStr, now, idx, logged, calls,
                    rowsAtStart, prevClean >>

\* Calls of this run that returned an error.
Errors(cs) == SelectSeq(cs, LAMBDA c : c.err # "none")

\* main.go:29: the program is started again; the database, the file and the
\* environment are as the previous run left them.
Restart ==
    /\ pc = "exited"
    /\ run < MaxRuns
    /\ run' = run + 1
    /\ prevClean' = (exitStatus = 0 /\ Errors(calls) = << >>)
    /\ rowsAtStart' = db.rows
    /\ pc' = "readconfig"
    /\ connStr' = ""
    /\ conn' = "nil"
    /\ closeCount' = 0
    /\ deferred' = << >>
    /\ now' = 0
    /\ idx' = 1
    /\ stdout' = << >>
    /\ logged' = << >>
    /\ exitStatus' = -1
    /\ calls' = << >>
    /\ UNCHANGED << env, db, clock >>

Next ==
    \/ ReadConfig
    \/ Connect
    \/ QueryNow
    \/ CreateTable
    \/ InsertUser
    \/ Report
    \/ Restart

Spec == Init /\ [][Next]_vars

\* main's own steps; the process is the only thread and each call returns.
Step == ReadConfig \/ Connect \/ QueryNow \/ CreateTable \/ InsertUser \/ Report

LiveSpec == Spec /\ WF_vars(Step)

\* ------------------------------------------------------------------------
\* Properties

Last(s) == s[Len(s)]

\* The insert attempts of this run, in the order they were made.
Inserts == SelectSeq(calls, LAMBDA c : c.op = "insert")
NowCalls == SelectSeq(calls, LAMBDA c : c.op = "now")

FailedAt(op) == \E i \in 1..Len(calls) : calls[i].op = op /\ calls[i].err # "none"
Succeeded(op) == \E i \in 1..Len(calls) : calls[i].op = op /\ calls[i].err = "none"
FatalOps == {"readconfig", "connect", "now", "create"}

\* No call of this run failed for a reason other than uniqueness.
NoFault == \A i \in 1..Len(calls) : calls[i].err # "fault"

Completed == pc = "exited" /\ exitStatus = 0

TableLine == Line("table", "Table 'users' created or already exists.", 0)
SuccessLines ==
    LET ok == SelectSeq(Inserts, LAMBDA c : c.err = "none")
    IN  [i \in 1..Len(ok) |-> Line("inserted", ok[i].arg, 0)]
InsertedLines == SelectSeq(stdout, LAMBDA l : l.kind = "inserted")
NameEmail(rows) == {<< r.username, r.email >> : r \in rows}

\* C1: every run that ended after pgx.Connect succeeded has closed the
\* connection exactly once.
C1_ClosedExactlyOnce ==
    (pc = "exited" /\ Succeeded("connect")) => (closeCount = 1 /\ conn = "closed")

C4_EmailConflictFails ==
    [][ (/\ pc = "insert" /\ idx \in 1..Len(users) /\ db.exists
         /\ users[idx].username \notin UsernamesOf(db.rows)
         /\ users[idx].email \in EmailsOf(db.rows)) =>
            /\ Last(calls').op = "insert"
            /\ Last(calls').arg = users[idx].username
            /\ Last(calls').err # "none"
            /\ logged' = Append(logged, Line("insertfail", users[idx].username, 0))
            /\ stdout' = stdout
            /\ db'.rows = db.rows
            /\ users[idx].username \notin UsernamesOf(db'.rows) ]_vars

C4_Witness ==
    \E i \in 1..Len(calls) : calls[i].op = "insert" /\ calls[i].err = "unique_email"

\* A failed fatal-tier call is the last call of its run, the run has ended
\* with nothing on standard output.
EndsAtFailure ==
    \A i \in 1..Len(calls) :
        (calls[i].op \in FatalOps /\ calls[i].err # "none") =>
            /\ i = Len(calls)
            /\ pc = "exited"
            /\ stdout = << >>
            /\ Inserts = << >>

C6_LoopToleratesFailure ==
    /\ [](/\ Len(Inserts) <= Len(users)
          /\ \A i \in 1..Len(Inserts) : Inserts[i].arg = users[i].username)
    /\ []((pc = "exited" /\ Succeeded("create")) =>
            /\ exitStatus = 0
            /\ Len(Inserts) = Len(users)
            /\ Len(stdout) >= 2
            /\ stdout[Len(stdout) - 1].kind = "time"
            /\ stdout[Len(stdout)].kind = "developer")
    /\ [][ pc = "insert" =>
            /\ pc' \in {"insert", "report"}
            /\ pc' = "report" <=> Len(Inserts) = Len(users) - 1
            /\ exitStatus' = -1
            /\ db.rows \subseteq db'.rows
            /\ Len(Inserts') = Len(Inserts) + 1 ]_vars
    /\ [](pc = "insert" => <>(Completed /\ Len(Inserts) = Len(users)))

C6_Witness ==
    /\ Completed
    /\ Inserts[1].err # "none"
    /\ Inserts[2].err = "none"
    /\ Inserts[3].err # "none"
    /\ db.rows # rowsAtStart

\* C7: a complete run's standard output is the table line, the success
\* lines of the attempts that did not error in input order, the time line
\* and the developer line; an unfinished or failed run holds a prefix of
\* it; the time is the one captured by the only time query, made right
\* after connecting and before table creation.
C7_OutputOrder ==
    /\ Len(NowCalls) <= 1
    /\ IF Completed
       THEN /\ Len(NowCalls) = 1
            /\ Len(calls) >= 4
            /\ calls[2].op = "connect" /\ calls[3].op = "now"
            /\ calls[4].op = "create"
            /\ stdout = << TableLine >> \o SuccessLines \o
                        << Line("time", "Current time:", calls[3].at),
                           Line("developer", "Hozana", 0) >>
       ELSE stdout = IF Succeeded("create")
                     THEN << TableLine >> \o SuccessLines ELSE << >>

C7_Witness ==
    /\ Completed
    /\ Inserts[1].err = "none"
    /\ Inserts[2].err # "none"
    /\ clock = calls[3].at + 4

\* C8: table creation with no users table creates it empty; with the table
\* present it succeeds and leaves the table and its rows as they are;
\* applying it again changes nothing.
C8_CreateIdempotent ==
    [][ (pc = "createtable" /\ Last(calls').err # "fault") =>
            /\ Last(calls').op = "create"
            /\ Last(calls').err = "none"
            /\ pc' = "insert"
            /\ db.exists => db' = db
            /\ ~db.exists => (db'.exists /\ db'.rows = {})
            /\ CreateTableIfNotExists(db').db = db' ]_vars

C8_Witness ==
    /\ run = 2 /\ pc = "insert" /\ idx = 1
    /\ Succeeded("create") /\ db.rows # {}

\* C9: the exit status is 0 exactly when no fatal-tier step failed; insert
\* failures do not change it.
C9_ExitStatus ==
    /\ pc = "exited" =>
          /\ exitStatus \in {0, 1}
          /\ exitStatus = 0 <=> ~(\E op \in FatalOps : FailedAt(op))
    /\ \A op \in FatalOps : FailedAt(op) => exitStatus = 1
    /\ pc # "exited" => exitStatus = -1

C9_Witness ==
    /\ Completed
    /\ Len(Inserts) = 3
    /\ \A i \in 1..3 : Inserts[i].err # "none"

\* C10: a run against the database left by a complete error-free run never
\* adds or changes a row, none of its inserts fails on a constraint, and
\* when it completes with no failure of the connection or server it has
\* printed a success line for all three attempts and logged nothing.
C10_SecondRunIdempotent ==
    (run > 1 /\ prevClean) =>
        /\ db.rows = rowsAtStart
        /\ \A i \in 1..Len(Inserts) : Inserts[i].err \in {"none", "fault"}
        /\ ((pc = "report" \/ Completed) /\ NoFault) =>
              /\ InsertedLines = << Line("inserted", "alice", 0),
                                    Line("inserted", "bob", 0),
                                    Line("inserted", "alice", 0) >>
              /\ logged = << >>

C10_Witness ==
    /\ run > 1 /\ prevClean /\ Completed /\ NoFault
    /\ Len(InsertedLines) = 3
====
